---- MODULE Spec2Model ----
(***************************************************************************)
(* Account and authentication utilities of the LMS:                        *)
(*   openedx/core/djangoapps/user_authn/utils.py                           *)
(*       password_complexity, generate_password,                           *)
(*       generate_username_suggestions, check_pwned_password               *)
(*   openedx/core/djangoapps/user_api/accounts/utils.py                    *)
(*       format_social_link, validate_social_link, generate_password       *)
(*                                                                         *)
(* The functions are stateless; the state of the model is the last call of *)
(* each function: its arguments, the settings it read and its outcome (the *)
(* value returned or the exception raised).                                *)
(*                                                                         *)
(* Characters of a password are represented by their class: the pools the  *)
(* code draws from are disjoint classes of characters and every property   *)
(* below counts characters per class.  A pool is a function from class to  *)
(* the number of its characters still in the pool.                         *)
(***************************************************************************)
EXTENDS Integers, Sequences, FiniteSets

VARIABLES
    pw_fn,          \* which generate_password was called: "none", "authn", "accounts"
    pw_args,        \* its arguments and the settings in force
    pw_outcome,     \* "none", "returned", "ValueError", "TypeError", "IndexError", ...
    pw_password,    \* the password returned (a sequence of character classes)
    pw_policy_read, \* whether the call read the password policy
    pw_drawn,       \* how many characters the call drew with choice()
    pw_filled       \* how many of them the fill step drew from chars

VARIABLES
    us_called,      \* whether generate_username_suggestions was called
    us_name,        \* its argument
    us_existing,    \* the usernames that exist or are retired
    us_suggestions  \* the list it returned

us_vars == <<us_called, us_name, us_existing, us_suggestions>>

VARIABLES
    pp_called,      \* whether check_pwned_password was called
    pp_password,    \* its argument
    pp_response,    \* what PwnedPasswordsAPI.range answered
    pp_properties   \* the dict it returned

pp_vars == <<pp_called, pp_password, pp_response, pp_properties>>

VARIABLES
    sl_fn,          \* "none", "format" (format_social_link) or "validate"
    sl_platform,    \* its argument platform_name
    sl_link,        \* its argument new_social_link
    sl_outcome,     \* "none", "returned", "ValueError" or "KeyError"
    sl_value        \* the value returned

sl_vars == <<sl_fn, sl_platform, sl_link, sl_outcome, sl_value>>

pw_vars ==
    <<pw_fn, pw_args, pw_outcome, pw_password, pw_policy_read, pw_drawn,
      pw_filled>>

-----------------------------------------------------------------------------
(* Helpers *)

Max(a, b) == IF a >= b THEN a ELSE b

Range(s) == {s[i] : i \in DOMAIN s}

\* dict.get(key, default)
Get(d, key, default) == IF key \in DOMAIN d THEN d[key] ELSE default

\* d[key] = value
Put(d, key, value) ==
    [k \in (DOMAIN d) \cup {key} |-> IF k = key THEN value ELSE d[k]]

EmptyDict == [k \in {} |-> 0]

\* the number of characters of s that are in the set of classes cs
Count(s, cs) == Cardinality({i \in DOMAIN s : s[i] \in cs})

\* n copies of x
RECURSIVE Repeat(_, _)
Repeat(x, n) == IF n <= 0 THEN <<>> ELSE <<x>> \o Repeat(x, n - 1)

-----------------------------------------------------------------------------
(* Character classes and pools (user_authn/utils.py, generate_password) *)

Classes == {"l", "u", "d", "p", "s", " "}

NumLower == 26
NumUpper == 26
NumDigits == 10
NumPunctuation == 32
NumSymbols == 12

NoChars == [c \in Classes |-> 0]

\* the pool each rule draws from, in the order the code goes through them
RuleOrder ==
    <<"min_lower", "min_upper", "min_alphabetic", "min_numeric",
      "min_punctuation", "min_symbol">>

password_rules ==
    [min_lower       |-> [NoChars EXCEPT !["l"] = NumLower],
     min_upper       |-> [NoChars EXCEPT !["u"] = NumUpper],
     min_alphabetic  |-> [NoChars EXCEPT !["l"] = NumLower, !["u"] = NumUpper],
     min_numeric     |-> [NoChars EXCEPT !["d"] = NumDigits],
     min_punctuation |-> [NoChars EXCEPT !["p"] = NumPunctuation],
     min_symbol      |-> [NoChars EXCEPT !["s"] = NumSymbols]]

PoolClasses(pool) == {c \in Classes : pool[c] > 0}

\* for _ in range(needed): next_char = choice(elems); password += next_char;
\*                         elems.remove(next_char)
\* The set of outcomes: the characters drawn, and whether choice() raised
\* IndexError on an emptied pool.
RECURSIVE DrawDistinct(_, _)
DrawDistinct(pool, needed) ==
    IF needed <= 0 THEN {[err |-> FALSE, s |-> <<>>]}
    ELSE IF PoolClasses(pool) = {} THEN {[err |-> TRUE, s |-> <<>>]}
    ELSE UNION {
        {[err |-> r.err, s |-> <<c>> \o r.s] :
            r \in DrawDistinct([pool EXCEPT ![c] = @ - 1], needed - 1)} :
        c \in PoolClasses(pool)}

\* [choice(chars) for _ in range(n)]: every string of n characters of chars
Fill(chars, n) ==
    IF n <= 0 THEN {<<>>} ELSE [1..n -> Range(chars)]

\* random.shuffle: for i in reversed(range(1, len(x))): j = randbelow(i + 1);
\* x[i], x[j] = x[j], x[i].  ShuffleFrom(S, i) is the set of lists the loop
\* can leave, started on the lists of S with positions 1..i still to do.
Swap(s, i, j) == [s EXCEPT ![i] = s[j], ![j] = s[i]]

RECURSIVE ShuffleFrom(_, _)
ShuffleFrom(S, i) ==
    IF i < 2 THEN S
    ELSE ShuffleFrom({Swap(s, i, j) : s \in S, j \in 1..i}, i - 1)

shuffle(S, n) == ShuffleFrom(S, n)

-----------------------------------------------------------------------------
(* password_complexity (user_authn/utils.py) *)

\* (the validators are named without their module path,
\*  common.djangoapps.util.password_policy_validators)
known_validators ==
    [MinimumLengthValidator |-> "min_length",
     MaximumLengthValidator |-> "max_length",
     AlphabeticValidator    |-> "min_alphabetic",
     UppercaseValidator     |-> "min_upper",
     LowercaseValidator     |-> "min_lower",
     NumericValidator       |-> "min_numeric",
     PunctuationValidator   |-> "min_punctuation",
     SymbolValidator        |-> "min_symbol"]

\* for validator in password_validators: ...
RECURSIVE ReadValidators(_, _)
ReadValidators(validators, complexity) ==
    IF validators = <<>> THEN complexity
    ELSE LET validator == Head(validators)
             param_name == Get(known_validators, validator.NAME, "None")
         IN  ReadValidators(
                 Tail(validators),
                 IF param_name # "None"
                 THEN Put(complexity, param_name,
                          Get(validator.OPTIONS, param_name, 0))
                 ELSE complexity)

\* python truth value of dict.get(key): absent (None) and 0 are false
Truthy(d, key) == Get(d, key, 0) # 0

\* merge alphabetic with lower and uppercase
MergeAlphabetic(complexity) ==
    IF Truthy(complexity, "min_alphabetic")
       /\ (Truthy(complexity, "min_lower") \/ Truthy(complexity, "min_upper"))
    THEN Put(complexity, "min_alphabetic",
             Max(0, complexity["min_alphabetic"]
                    - Get(complexity, "min_lower", 0)
                    - Get(complexity, "min_upper", 0)))
    ELSE complexity

password_complexity(validators) ==
    MergeAlphabetic(ReadValidators(validators, EmptyDict))

-----------------------------------------------------------------------------
(* generate_password (user_authn/utils.py) *)

MinPasswordLength == 8

Outcome(outcome, password, policy_read, drawn, filled) ==
    [outcome |-> outcome, password |-> password,
     policy_read |-> policy_read, drawn |-> drawn, filled |-> filled]

\* for rule, elems in password_rules.items(): draw complexity.get(rule, 0)
\* characters of the rule's pool; rules k.. of RuleOrder
RECURSIVE DrawRules(_, _)
DrawRules(complexity, k) ==
    IF k > Len(RuleOrder) THEN {[err |-> FALSE, s |-> <<>>]}
    ELSE LET rule == RuleOrder[k]
             needed == Get(complexity, rule, 0)
         IN  UNION {
                 IF h.err THEN {h}
                 ELSE {[err |-> t.err, s |-> h.s \o t.s] :
                          t \in DrawRules(complexity, k + 1)} :
                 h \in DrawDistinct(password_rules[rule], needed)}

\* (a fill that adds a character even to a password already long enough)
FillTo_AlwaysFills(password, chars, password_length) ==
    IF chars = <<>>
    THEN {[err |-> TRUE, s |-> password, n |-> 0]}
    ELSE {[err |-> FALSE, s |-> password \o f, n |-> Len(f)] :
             f \in Fill(chars, Max(1, password_length - Len(password)))}

\* fill the password to reach password_length
FillTo(password, chars, password_length) ==
    IF Len(password) < password_length
    THEN IF chars = <<>>
         THEN {[err |-> TRUE, s |-> password, n |-> 0]}
         ELSE {[err |-> FALSE, s |-> password \o f, n |-> Len(f)] :
                  f \in Fill(chars, password_length - Len(password))}
    ELSE {[err |-> FALSE, s |-> password, n |-> 0]}

\* password_list = list(password); random.shuffle(password_list)
Shuffled(S) ==
    UNION {shuffle({s \in S : Len(s) = n}, n) : n \in {Len(s) : s \in S}}

\* (a length check that lets 7 through)
TooShort_OffByOne(length) == length < MinPasswordLength - 1

\* the length check at the top of the function
TooShort(length) == length < MinPasswordLength

\* (a target length that leaves the policy's min_length out)
TargetLength_IgnoresPolicy(length, complexity) ==
    IF "min_length" \in DOMAIN complexity THEN length ELSE -1

\* password_length = max(length, complexity.get('min_length')); -1 stands
\* for the TypeError that max(int, None) raises
TargetLength(length, complexity) ==
    IF "min_length" \in DOMAIN complexity
    THEN Max(length, complexity["min_length"])
    ELSE -1

\* The set of outcomes of generate_password(length, chars) under the
\* AUTH_PASSWORD_VALIDATORS setting validators
generate_password(length, chars, validators) ==
    IF TooShort(length)
    THEN {Outcome("ValueError", <<>>, FALSE, 0, 0)}
    ELSE
    LET complexity == password_complexity(validators)
        password_length == TargetLength(length, complexity)
    IN  IF password_length < 0
        THEN {Outcome("TypeError", <<>>, TRUE, 0, 0)}
        ELSE
        LET required == DrawRules(complexity, 1)
            filled == UNION {FillTo(r.s, chars, password_length) :
                                r \in {r \in required : ~r.err}}
        IN  {Outcome("IndexError", <<>>, TRUE, Len(r.s), 0) :
                r \in {r \in required : r.err}}
            \cup {Outcome("IndexError", <<>>, TRUE, Len(r.s), 0) :
                r \in {r \in filled : r.err}}
            \cup UNION {
                {Outcome("returned", p, TRUE, Len(p), n) :
                    p \in Shuffled({r.s : r \in {r \in filled :
                                                    ~r.err /\ r.n = n}})} :
                n \in {r.n : r \in filled}}

-----------------------------------------------------------------------------
(* generate_password (user_api/accounts/utils.py) *)

\* one of the "for _ in xrange(n): c = choice(pool); password += c; del ..."
\* loops, continued from each password of S drawn so far without an error
DrawMore(S, pool, n) ==
    UNION {IF r.err THEN {r}
           ELSE {[err |-> d.err, s |-> r.s \o d.s] : d \in DrawDistinct(pool, n)} :
           r \in S}

\* the minimum counts the function works with: its defaults, or those of
\* password_complexity() when FEATURES['ENFORCE_PASSWORD_POLICY'] is set
AccountsMinimums(enforce, complexity) ==
    IF enforce
    THEN LET min_uppercase == Get(complexity, "UPPER", 0)
             min_lowercase == Get(complexity, "LOWER", 0)
             min_alphabetic == Get(complexity, "ALPHABETIC", 0)
         IN  [min_uppercase |-> min_uppercase,
              min_lowercase |-> IF min_alphabetic > min_uppercase + min_lowercase
                                THEN min_alphabetic - min_uppercase
                                ELSE min_lowercase,
              min_punctuation |-> Get(complexity, "PUNCTUATION", 0),
              min_words |-> Get(complexity, "WORDS", 1),
              min_non_ascii |-> Get(complexity, "NON ASCII", 0),
              min_digits |-> Max(Get(complexity, "DIGITS", 0),
                                 Get(complexity, "NUMERIC", 0))]
    ELSE [min_uppercase |-> 1, min_lowercase |-> 1, min_punctuation |-> 0,
          min_words |-> 1, min_non_ascii |-> 0, min_digits |-> 1]

\* l + ' ' * (n % word_size == word_size - 1 and n < length - 1)
\* for n, l in enumerate(password), from position i (n = i - 1)
RECURSIVE SpacedFrom(_, _, _, _)
SpacedFrom(password, i, word_size, length) ==
    IF i > Len(password) THEN <<>>
    ELSE (IF (i - 1) % word_size = word_size - 1 /\ i - 1 < length - 1
          THEN <<password[i], " ">>
          ELSE <<password[i]>>)
         \o SpacedFrom(password, i + 1, word_size, length)

\* The set of outcomes of generate_password(length, chars) under the settings
\* PASSWORD_MIN_LENGTH and FEATURES['ENFORCE_PASSWORD_POLICY'] (enforce), with
\* password_complexity() returning complexity
accounts_generate_password(length, chars, min_length, enforce, complexity) ==
    IF TooShort(length)
    THEN {Outcome("ValueError", <<>>, FALSE, 0, 0)}
    ELSE
    LET m == AccountsMinimums(enforce, complexity)
        password_length == Max(length, min_length)
        digits == DrawDistinct(password_rules["min_numeric"], m.min_digits)
        lower == DrawMore(digits, password_rules["min_lower"], m.min_lowercase)
        upper == DrawMore(lower, password_rules["min_upper"], m.min_uppercase)
        punct == DrawMore(upper, password_rules["min_punctuation"],
                          m.min_punctuation)
        \* min_non_ascii is bound only inside "if ENFORCE_PASSWORD_POLICY"
        unbound == IF enforce THEN {} ELSE {r \in punct : ~r.err}
        non_ascii == DrawMore(punct \ unbound, password_rules["min_symbol"],
                              m.min_non_ascii)
        policies == m.min_uppercase + m.min_lowercase + m.min_digits
                    + m.min_punctuation
        filled == UNION {
            IF password_length - policies > 0 /\ chars = <<>>
            THEN {[err |-> TRUE, s |-> r.s, n |-> 0]}
            ELSE {[err |-> FALSE, s |-> r.s \o f, n |-> Len(f)] :
                     f \in Fill(chars, password_length - policies)} :
            r \in {r \in non_ascii : ~r.err}}
        shuffled == UNION {
            {[s |-> p, n |-> n] :
                p \in Shuffled({r.s : r \in {r \in filled : ~r.err /\ r.n = n}})} :
            n \in {r.n : r \in filled}}
        word_size == password_length \div m.min_words
    IN  {Outcome("UnboundLocalError", <<>>, enforce, Len(r.s), 0) : r \in unbound}
        \cup {Outcome("IndexError", <<>>, enforce, Len(r.s), 0) :
                r \in {r \in non_ascii : r.err}}
        \cup {Outcome("IndexError", <<>>, enforce, Len(r.s), 0) :
                r \in {r \in filled : r.err}}
        \cup {IF m.min_words > 1
              THEN IF word_size = 0
                   THEN Outcome("ZeroDivisionError", <<>>, enforce,
                                Len(r.s), r.n)
                   ELSE Outcome("returned",
                                SpacedFrom(r.s, 1, word_size, length),
                                enforce, Len(r.s), r.n)
              ELSE Outcome("returned", r.s, enforce, Len(r.s), r.n) :
              r \in shuffled}

-----------------------------------------------------------------------------
(* The calls of generate_password that are checked *)

\* the largest minimum a rule of the generated policies asks for
MaxNeed == 1
\* requested lengths: 0, and MinPasswordLength - 1 to MinPasswordLength + MaxExtra
MaxExtra == 0

ValidatorOf ==
    [min_length      |-> "MinimumLengthValidator",
     max_length      |-> "MaximumLengthValidator",
     min_alphabetic  |-> "AlphabeticValidator",
     min_upper       |-> "UppercaseValidator",
     min_lower       |-> "LowercaseValidator",
     min_numeric     |-> "NumericValidator",
     min_punctuation |-> "PunctuationValidator",
     min_symbol      |-> "SymbolValidator"]

\* one entry of AUTH_PASSWORD_VALIDATORS
Validator(param, n) ==
    [NAME |-> ValidatorOf[param], OPTIONS |-> Put(EmptyDict, param, n)]

Lengths == {0} \cup ((MinPasswordLength - 1) .. (MinPasswordLength + MaxExtra))

\* no MinimumLengthValidator, one below every valid length (the platform's
\* default of 2), or one above the least valid length
MinLengthPolicies ==
    {<<>>, <<Validator("min_length", 2)>>,
     <<Validator("min_length", MinPasswordLength + 1)>>}

\* at most two of the six character rules, each asking for 1..MaxNeed
ClassPolicies ==
    {<<>>}
    \cup {<<Validator(RuleOrder[i], n)>> :
             i \in DOMAIN RuleOrder, n \in 1..MaxNeed}
    \cup {<<Validator(RuleOrder[ij[1]], nm[1]), Validator(RuleOrder[ij[2]], nm[2])>> :
             ij \in {x \in (DOMAIN RuleOrder) \X (DOMAIN RuleOrder) : x[1] < x[2]},
             nm \in (1..MaxNeed) \X (1..MaxNeed)}

\* policies outside that family: the merge of min_alphabetic with both
\* min_lower and min_upper, rules that ask for more than the target length
\* or more than their pool holds, and entries password_complexity skips or
\* reads a default from
SpecialPolicies ==
    {<<Validator("min_length", 2), Validator("min_alphabetic", 3),
       Validator("min_lower", 1), Validator("min_upper", 1)>>,
     <<Validator("min_length", 2), Validator("min_alphabetic", 8),
       Validator("min_lower", 4), Validator("min_upper", 4)>>,
     <<Validator("min_length", 2), Validator("min_alphabetic", 1),
       Validator("min_lower", 2), Validator("min_upper", 1)>>,
     <<Validator("min_length", 2), Validator("min_alphabetic", 0),
       Validator("min_lower", 1)>>,
     <<Validator("min_length", 2), Validator("min_numeric", 9)>>,
     <<Validator("min_length", 2), Validator("min_lower", 2),
       Validator("min_upper", 3), Validator("min_punctuation", 2)>>,
     <<Validator("min_length", 2), Validator("min_alphabetic", 2),
       Validator("min_symbol", 3)>>,
     <<Validator("min_length", 2), Validator("min_alphabetic", 5),
       Validator("min_upper", 2), Validator("min_numeric", 4)>>,
     <<Validator("min_length", 2), Validator("min_numeric", 8),
       Validator("min_symbol", 2)>>,
     <<Validator("min_length", 2), Validator("min_numeric", NumDigits + 1)>>,
     <<Validator("min_numeric", NumDigits + 1)>>,
     <<Validator("min_length", 2), Validator("min_symbol", NumSymbols + 1)>>,
     <<Validator("min_length", 2), Validator("max_length", 8),
       Validator("min_numeric", 1)>>,
     <<[NAME |-> "MinimumLengthValidator", OPTIONS |-> EmptyDict],
       [NAME |-> "NumericValidator", OPTIONS |-> EmptyDict]>>,
     <<[NAME |-> "UserAttributeSimilarityValidator", OPTIONS |-> EmptyDict],
       Validator("min_length", 2)>>,
     <<[NAME |-> "UserAttributeSimilarityValidator", OPTIONS |-> EmptyDict]>>,
     <<Validator("min_length", 2), Validator("min_numeric", 3),
       Validator("min_numeric", 1)>>}

Policies ==
    {m \o c : m \in MinLengthPolicies, c \in ClassPolicies} \cup SpecialPolicies

\* the default value of chars, string.ascii_letters + string.digits, as the
\* classes of its characters
DefaultChars == <<"l", "u", "d">>

Call(length, chars, validators) ==
    [length |-> length, chars |-> chars, validators |-> validators]

\* every length with every policy, filling from a pool of digits; and the
\* default pool, or an empty one, under policies that leave little to fill
Calls ==
    {Call(length, <<"d">>, validators) :
        length \in Lengths, validators \in Policies}
    \cup {Call(MinPasswordLength, DefaultChars,
               <<Validator("min_length", 2), Validator("min_numeric", 6)>>),
          Call(MinPasswordLength, DefaultChars,
               <<Validator("min_length", 2), Validator("min_punctuation", 5),
                 Validator("min_alphabetic", 2)>>),
          Call(MinPasswordLength + 1, DefaultChars,
               <<Validator("min_length", 2), Validator("min_symbol", 7)>>),
          Call(MinPasswordLength, DefaultChars,
               <<Validator("min_numeric", 6)>>),
          Call(MinPasswordLength - 1, DefaultChars,
               <<Validator("min_length", 2)>>),
          Call(MinPasswordLength, <<>>,
               <<Validator("min_length", 2), Validator("min_numeric", 8)>>),
          Call(MinPasswordLength, <<>>,
               <<Validator("min_length", 2), Validator("min_numeric", 6)>>)}

Dict1(k, v) == Put(EmptyDict, k, v)

Dict2(k1, v1, k2, v2) == Put(Dict1(k1, v1), k2, v2)

\* what password_complexity() of util.password_policy_validators returns
AccountsComplexities ==
    {EmptyDict,
     Put(Dict2("UPPER", 1, "LOWER", 1), "DIGITS", 1),
     Dict2("ALPHABETIC", 3, "UPPER", 1),
     Dict2("NUMERIC", 2, "DIGITS", 1),
     Dict2("PUNCTUATION", 1, "NON ASCII", 1),
     Dict2("WORDS", 2, "LOWER", 1),
     Dict2("WORDS", 3, "NON ASCII", 2),
     Dict1("WORDS", 10),
     Dict1("DIGITS", NumDigits + 1)}

AccountsCalls ==
    [length : Lengths, chars : {<<"d">>}, PASSWORD_MIN_LENGTH : {2, MinPasswordLength + 1},
     ENFORCE_PASSWORD_POLICY : BOOLEAN, complexity : AccountsComplexities]
    \cup [length : {MinPasswordLength}, chars : {<<>>}, PASSWORD_MIN_LENGTH : {2},
          ENFORCE_PASSWORD_POLICY : {TRUE},
          complexity : {EmptyDict, Dict2("DIGITS", 4, "LOWER", 4)}]

Idle == pw_fn = "none"

AccountsGeneratePassword ==
    /\ Idle
    /\ \E call \in AccountsCalls :
        \E o \in accounts_generate_password(
                    call.length, call.chars, call.PASSWORD_MIN_LENGTH,
                    call.ENFORCE_PASSWORD_POLICY, call.complexity) :
            /\ pw_fn' = "accounts"
            /\ pw_args' = call
            /\ pw_outcome' = o.outcome
            /\ pw_password' = o.password
            /\ pw_policy_read' = o.policy_read
            /\ pw_drawn' = o.drawn
            /\ pw_filled' = o.filled
    /\ UNCHANGED <<us_vars, pp_vars, sl_vars>>

GeneratePassword ==
    /\ Idle
    /\ \E call \in Calls :
        \E o \in generate_password(call.length, call.chars, call.validators) :
            /\ pw_fn' = "authn"
            /\ pw_args' = call
            /\ pw_outcome' = o.outcome
            /\ pw_password' = o.password
            /\ pw_policy_read' = o.policy_read
            /\ pw_drawn' = o.drawn
            /\ pw_filled' = o.filled
    /\ UNCHANGED <<us_vars, pp_vars, sl_vars>>

-----------------------------------------------------------------------------
(* generate_username_suggestions (user_authn/utils.py) *)
(* A string is a sequence of one-character strings.                        *)

\* the value the accounts package gives USERNAME_MAX_LENGTH
USERNAME_MAX_LENGTH == 30

Letters == {"a", "b"}
UpperLetters == {"A", "B"}
Digits == {"0", "1", "9"}

\* str.lower(), character by character
LowerChar(c) ==
    CASE c = "A" -> "a" [] c = "B" -> "b" [] c = "X" -> "x" [] c = "W" -> "w"
      [] OTHER -> c

lower(s) == [i \in DOMAIN s |-> LowerChar(s[i])]

\* s[:n]
Prefix(s, n) ==
    IF n >= 0
    THEN SubSeq(s, 1, IF n < Len(s) THEN n ELSE Len(s))
    ELSE SubSeq(s, 1, Len(s) + n)

\* s.replace(c, '')
Without(s, c) == SelectSeq(s, LAMBDA x : x # c)

\* str(n) for n >= 0
RECURSIVE str(_)
str(n) ==
    LET digit == <<"0", "1", "2", "3", "4", "5", "6", "7", "8", "9">>[(n % 10) + 1]
    IN  IF n < 10 THEN <<digit>> ELSE str(n \div 10) \o <<digit>>

\* name.split(' ')[0] and name.split(' ')[-1]
Spaces(name) == {i \in DOMAIN name : name[i] = " "}

FirstOfSplit(name) ==
    IF Spaces(name) = {} THEN name
    ELSE SubSeq(name, 1, (CHOOSE i \in Spaces(name) :
                             \A j \in Spaces(name) : i <= j) - 1)

LastOfSplit(name) ==
    IF Spaces(name) = {} THEN name
    ELSE SubSeq(name, (CHOOSE i \in Spaces(name) :
                          \A j \in Spaces(name) : i >= j) + 1, Len(name))

\* "".join(re.findall(r"[\w-]+", name))
WordChar(c) == c \in Letters \cup UpperLetters \cup Digits \cup {"_"}

remove_special_characters_from_name(name) ==
    SelectSeq(name, LAMBDA c : WordChar(c) \/ c = "-")

\* username_exists_or_retired(username), with existing the usernames that
\* exist or are retired
username_exists_or_retired(username, existing) == username \in existing

\* (an append that does not ask whether the username exists)
AppendIfAvailable_Unchecked(username_suggestions, suggestion, existing) ==
    Append(username_suggestions, suggestion)

\* if not username_exists_or_retired(suggestion):
\*     username_suggestions.append(suggestion)
AppendIfAvailable(username_suggestions, suggestion, existing) ==
    IF ~username_exists_or_retired(suggestion, existing)
    THEN Append(username_suggestions, suggestion)
    ELSE username_suggestions

int_ranges ==
    <<[min |-> 0, max |-> 9],
      [min |-> 10, max |-> 99],
      [min |-> 100, max |-> 999],
      [min |-> 1000, max |-> 99999]>>

\* the values random.randint(min, max) is taken to return: the two ends
RandomInts(int_range) == {int_range.min, int_range.max}

NumTries == 10

\* for _ in range(10): the suggestions the loop can append for one range,
\* <<s>>, or <<>> when every try met a username that exists
RECURSIVE TryRange(_, _, _, _)
TryRange(short_username, int_range, tries, existing) ==
    IF tries = 0 THEN {<<>>}
    ELSE LET suggestions == {short_username \o <<"_">> \o str(random_int) :
                                random_int \in RandomInts(int_range)}
             taken == {s \in suggestions :
                          username_exists_or_retired(s, existing)}
         IN  {<<s>> : s \in suggestions \ taken}
             \cup (IF taken # {}
                   THEN TryRange(short_username, int_range, tries - 1, existing)
                   ELSE {})

\* (a loop that stops at four suggestions)
Enough_AtFour(username_suggestions) == Len(username_suggestions) = 4

\* if len(username_suggestions) == 3: break
Enough(username_suggestions) == Len(username_suggestions) = 3

\* for int_range in int_ranges: ..., from range k on
RECURSIVE RangeLoop(_, _, _, _)
RangeLoop(username_suggestions, short_username, k, existing) ==
    IF k > Len(int_ranges) THEN {username_suggestions}
    ELSE UNION {
        LET appended == username_suggestions \o a
        IN  IF Enough(appended) THEN {appended}
            ELSE RangeLoop(appended, short_username, k + 1, existing) :
        a \in TryRange(short_username, int_ranges[k], NumTries, existing)}

\* the first two suggestions, from the first and the last name
FromNames(first_name, last_name, max_length, existing) ==
    IF first_name # last_name /\ first_name # <<>>
    THEN AppendIfAvailable(
             AppendIfAvailable(<<>>,
                               Prefix(first_name \o last_name, max_length),
                               existing),
             Prefix(<<first_name[1], "-">> \o last_name, max_length),
             existing)
    ELSE <<>>

ShortUsername(first_name, max_length) ==
    Without(Without(Prefix(first_name, max_length - 6), "_"), "-")

\* The set of lists generate_username_suggestions(name) can return
generate_username_suggestions(name, existing) ==
    LET max_length == USERNAME_MAX_LENGTH
        first_name == remove_special_characters_from_name(lower(FirstOfSplit(name)))
        last_name == remove_special_characters_from_name(lower(LastOfSplit(name)))
        username_suggestions ==
            FromNames(first_name, last_name, max_length, existing)
    IN  IF Len(first_name) >= 2
        THEN RangeLoop(username_suggestions,
                       ShortUsername(first_name, max_length), 1, existing)
        ELSE {username_suggestions}

-----------------------------------------------------------------------------
(* The calls of generate_username_suggestions that are checked *)

\* how many usernames exist or are retired
MaxExisting == 2

NameWords ==
    {<<>>, <<"a">>, <<"a", "b">>, <<"a", "-">>, <<"A", "!", "b">>,
     <<"_", "0">>, <<"-">>, <<"a", "b", "_", "9">>, <<"b", "_", "a">>,
     Repeat("a", 25), Repeat("-", 31)}

\* one word, or two or three words with single spaces between them
Names ==
    NameWords
    \cup {f \o <<" ">> \o l : f \in NameWords, l \in NameWords}
    \cup {f \o <<" ">> \o m \o <<" ">> \o l :
             f \in {<<"a", "b">>, <<>>}, m \in {<<"b">>, <<>>},
             l \in {<<"a", "b">>, <<"b">>}}

\* every username the call on name may ask about
Candidates(name) ==
    LET first_name == remove_special_characters_from_name(lower(FirstOfSplit(name)))
        last_name == remove_special_characters_from_name(lower(LastOfSplit(name)))
    IN  {Prefix(first_name \o last_name, USERNAME_MAX_LENGTH)}
        \cup (IF first_name # <<>>
              THEN {Prefix(<<first_name[1], "-">> \o last_name, USERNAME_MAX_LENGTH)}
              ELSE {})
        \cup {ShortUsername(first_name, USERNAME_MAX_LENGTH) \o <<"_">> \o str(n) :
                 n \in UNION {RandomInts(int_ranges[k]) : k \in DOMAIN int_ranges}}

ExistingSets(name) ==
    {e \in SUBSET Candidates(name) : Cardinality(e) <= MaxExisting}

GenerateUsernameSuggestions ==
    /\ ~us_called
    /\ \E name \in Names :
        \E existing \in ExistingSets(name) :
            \E suggestions \in generate_username_suggestions(name, existing) :
                /\ us_called' = TRUE
                /\ us_name' = name
                /\ us_existing' = existing
                /\ us_suggestions' = suggestions
    /\ UNCHANGED <<pw_vars, pp_vars, sl_vars>>

-----------------------------------------------------------------------------
(* check_pwned_password (user_authn/utils.py) *)

HTTP_408_REQUEST_TIMEOUT == 408

\* hashlib.sha1(password.encode('utf-8')).hexdigest().upper(), as its first
\* five characters and the rest
Sha1HexUpper(password) ==
    CASE password = "password" ->
            [prefix |-> "5BAA6", suffix |-> "1E4C9B93F3F0682250B6CF8331B7EE68FD8"]
      [] password = "123456" ->
            [prefix |-> "7C4A8", suffix |-> "D09CA3762AF61E59520943DC26494F8941B"]
      [] password = "" ->
            [prefix |-> "DA39A", suffix |-> "3EE5E6B4B0D3255BFEF95601890AFD80709"]

\* password[5:]
HashSuffix(hash) == hash.suffix

\* math.ceil(math.log10(n)) for n >= 1: the least k with 10^k >= n
RECURSIVE Pow10(_)
Pow10(k) == IF k = 0 THEN 1 ELSE 10 * Pow10(k - 1)

RECURSIVE CeilLog10From(_, _)
CeilLog10From(n, k) == IF Pow10(k) >= n THEN k ELSE CeilLog10From(n, k + 1)

CeilLog10(n) == CeilLog10From(n, 0)

\* (a count of 0 taken for a breach)
Vulnerability_FromZero(pwned_count) == IF pwned_count >= 0 THEN "yes" ELSE "no"

\* 'yes' if pwned_count > 0 else 'no'
Vulnerability(pwned_count) == IF pwned_count > 0 THEN "yes" ELSE "no"

\* A response is None, a status code, or a dict from hash suffix to count
NoneResponse == [kind |-> "None"]
StatusResponse(code) == [kind |-> "status", code |-> code]
DictResponse(d) == [kind |-> "dict", dict |-> d]

IsTimeout(pwned_response) ==
    pwned_response.kind = "status"
    /\ pwned_response.code = HTTP_408_REQUEST_TIMEOUT

check_pwned_password(password, pwned_response) ==
    LET hash == Sha1HexUpper(password)
        properties == EmptyDict
    IN  IF pwned_response.kind # "None"
        THEN LET pwned_count ==
                     IF IsTimeout(pwned_response) THEN 0
                     ELSE Get(pwned_response.dict, HashSuffix(hash), 0)
                 with_vulnerability ==
                     Put(properties, "vulnerability",
                         IF IsTimeout(pwned_response) THEN "unknown"
                         ELSE Vulnerability(pwned_count))
             IN  IF pwned_count > 0
                 THEN Put(with_vulnerability, "frequency", CeilLog10(pwned_count))
                 ELSE with_vulnerability
        ELSE properties

\* the largest count a response gives
MaxCount == 11

PwnedPasswords == {"password", "123456", ""}

\* the suffixes a response lists: those of the passwords above that share
\* the prefix asked for, and one of another password
ResponseSuffixes(password) ==
    {HashSuffix(Sha1HexUpper(password)), "0018A45C4D1DEF81644B54AB7F969B88D65"}

PwnedResponses(password) ==
    {NoneResponse, StatusResponse(HTTP_408_REQUEST_TIMEOUT)}
    \cup {DictResponse(d) :
             d \in UNION {[S -> 0..MaxCount] : S \in SUBSET ResponseSuffixes(password)}}

CheckPwnedPassword ==
    /\ ~pp_called
    /\ \E password \in PwnedPasswords :
        \E pwned_response \in PwnedResponses(password) :
            /\ pp_called' = TRUE
            /\ pp_password' = password
            /\ pp_response' = pwned_response
            /\ pp_properties' = check_pwned_password(password, pwned_response)
    /\ UNCHANGED <<pw_vars, us_vars, sl_vars>>

-----------------------------------------------------------------------------
(* format_social_link, validate_social_link (user_api/accounts/utils.py) *)
(* A value is None or a string; a string is a sequence of characters.      *)

None == [kind |-> "None"]
Str(s) == [kind |-> "str", s |-> s]

\* python truth value: None and '' are false
Blank(v) == v.kind = "None" \/ v.s = <<>>

\* settings.SOCIAL_PLATFORMS
SOCIAL_PLATFORMS ==
    [facebook |-> [url_stub |-> <<"x", "/">>],
     linkedin |-> [url_stub |-> <<"x", "/", "i", "/">>]]

\* urlparse(url): the netloc and the path of a url without '?', '#' or ';'
SchemeChar(c) == c \notin {"/", ":"}

\* the url after its scheme, when a ':' follows a run of scheme characters
AfterScheme(url) ==
    LET colons == {i \in DOMAIN url : url[i] = ":"}
        i == IF colons = {} THEN 0
             ELSE CHOOSE c \in colons : \A d \in colons : c <= d
    IN  IF i > 1 /\ \A k \in 1..(i - 1) : SchemeChar(url[k])
        THEN SubSeq(url, i + 1, Len(url))
        ELSE url

\* parse_result[1] + parse_result[2]
NetlocAndPath(url) ==
    LET rest == AfterScheme(url)
    IN  IF Len(rest) >= 2 /\ rest[1] = "/" /\ rest[2] = "/"
        THEN SubSeq(rest, 3, Len(rest))
        ELSE rest

\* whether pattern is at position i of text, ignoring case
MatchesAt(text, i, pattern) ==
    /\ i + Len(pattern) - 1 <= Len(text)
    /\ \A k \in DOMAIN pattern :
           LowerChar(text[i + k - 1]) = LowerChar(pattern[k])

Www == <<"w", "w", "w", ".">>

\* where the group username starts when '(www\.)?' + url_stub matches at i;
\* 0 when it does not match there
UsernameStart(text, i, url_stub) ==
    IF MatchesAt(text, i, Www) /\ MatchesAt(text, i + Len(Www), url_stub)
    THEN i + Len(Www) + Len(url_stub)
    ELSE IF MatchesAt(text, i, url_stub)
    THEN i + Len(url_stub)
    ELSE 0

\* '(?P<username>.*?)[/]?$' on the rest of the text: the shortest username
\* is the rest without one trailing '/'
LazyUsername(rest) ==
    IF rest # <<>> /\ rest[Len(rest)] = "/"
    THEN SubSeq(rest, 1, Len(rest) - 1)
    ELSE rest

\* re.search(...): the leftmost match; None when there is none
SearchUsername(text, url_stub) ==
    LET starts == {i \in 1..(Len(text) + 1) : UsernameStart(text, i, url_stub) # 0}
    IN  IF starts = {} THEN None
        ELSE LET i == CHOOSE a \in starts : \A b \in starts : a <= b
             IN  Str(LazyUsername(SubSeq(text, UsernameStart(text, i, url_stub),
                                         Len(text))))

\* (no validation of the username)
is_valid_social_username_Any(value) == TRUE

\* '/' not in value
is_valid_social_username(value) == "/" \notin Range(value)

\* _get_username_from_social_link, for a platform of SOCIAL_PLATFORMS
get_username_from_social_link(platform_name, new_social_link) ==
    IF Blank(new_social_link) THEN new_social_link
    ELSE LET url_domain_and_path == NetlocAndPath(new_social_link.s)
             url_stub == SOCIAL_PLATFORMS[platform_name].url_stub
             username_match == SearchUsername(url_domain_and_path, url_stub)
             username == IF username_match # None THEN username_match.s
                         ELSE new_social_link.s
         IN  IF ~is_valid_social_username(username) THEN None
             ELSE Str(username)

HttpsWww == <<"h", "t", "t", "p", "s", ":", "/", "/", "w", "w", "w", ".">>

Result(outcome, value) == [outcome |-> outcome, value |-> value]

format_social_link(platform_name, new_social_link) ==
    IF Blank(new_social_link) THEN Result("returned", new_social_link)
    ELSE IF platform_name \notin DOMAIN SOCIAL_PLATFORMS
    THEN Result("KeyError", None)
    ELSE LET url_stub == SOCIAL_PLATFORMS[platform_name].url_stub
             username == get_username_from_social_link(platform_name,
                                                       new_social_link)
         IN  IF Blank(username) THEN Result("returned", None)
             ELSE Result("returned", Str(HttpsWww \o url_stub \o username.s))

\* if formatted_social_link is None
NotFormatted(formatted_social_link) == formatted_social_link = None

validate_social_link(platform_name, new_social_link) ==
    LET formatted == format_social_link(platform_name, new_social_link)
    IN  IF formatted.outcome # "returned" THEN formatted
        ELSE IF NotFormatted(formatted.value)
        THEN IF platform_name \notin DOMAIN SOCIAL_PLATFORMS
             THEN Result("KeyError", None)
             ELSE Result("ValueError", None)
        ELSE Result("returned", None)

\* the longest link of the links enumerated character by character
MaxLinkLen == 3

LinkChars == {"a", "x", "/", ":", "."}

ShortLinks == UNION {[1..n -> LinkChars] : n \in 0..MaxLinkLen}

\* links put together as [scheme:][//][www.]host/path
ComposedLinks ==
    {scheme \o slashes \o www \o host \o tail :
        scheme \in {<<>>, <<"h", "t", "t", "p", "s", ":">>, <<"h", "t", "t", "p", ":">>},
        slashes \in {<<>>, <<"/", "/">>},
        www \in {<<>>, Www, <<"W", "w", "w", ".">>},
        host \in {<<>>, <<"x", "/">>, <<"X", "/">>, <<"x", "/", "i", "/">>,
                  <<"a", ".", "x", "/">>, <<"a", "/">>},
        tail \in {<<>>, <<"a">>, <<"a", "/">>, <<"a", "/", "/">>,
                  <<"a", "/", "b">>, <<"A", "b">>, <<"x", "/", "b">>}}

Links == {None} \cup {Str(s) : s \in ShortLinks \cup ComposedLinks}

Platforms == {"facebook", "linkedin", "myspace"}

FormatSocialLink ==
    /\ sl_fn = "none"
    /\ \E platform_name \in Platforms, new_social_link \in Links :
        LET r == format_social_link(platform_name, new_social_link)
        IN  /\ sl_fn' = "format"
            /\ sl_platform' = platform_name
            /\ sl_link' = new_social_link
            /\ sl_outcome' = r.outcome
            /\ sl_value' = r.value
    /\ UNCHANGED <<pw_vars, us_vars, pp_vars>>

ValidateSocialLink ==
    /\ sl_fn = "none"
    /\ \E platform_name \in Platforms, new_social_link \in Links :
        LET r == validate_social_link(platform_name, new_social_link)
        IN  /\ sl_fn' = "validate"
            /\ sl_platform' = platform_name
            /\ sl_link' = new_social_link
            /\ sl_outcome' = r.outcome
            /\ sl_value' = r.value
    /\ UNCHANGED <<pw_vars, us_vars, pp_vars>>

-----------------------------------------------------------------------------
(* Specifications: one call, of any of the functions of a group *)

Init ==
    /\ pw_fn = "none"
    /\ pw_args = [length |-> 0]
    /\ pw_outcome = "none"
    /\ pw_password = <<>>
    /\ pw_policy_read = FALSE
    /\ pw_drawn = 0
    /\ pw_filled = 0
    /\ us_called = FALSE
    /\ us_name = <<>>
    /\ us_existing = {}
    /\ us_suggestions = <<>>
    /\ pp_called = FALSE
    /\ pp_password = ""
    /\ pp_response = NoneResponse
    /\ pp_properties = EmptyDict
    /\ sl_fn = "none"
    /\ sl_platform = ""
    /\ sl_link = None
    /\ sl_outcome = "none"
    /\ sl_value = None

vars == <<pw_vars, us_vars, pp_vars, sl_vars>>

NextPassword == GeneratePassword \/ AccountsGeneratePassword

SpecPassword == Init /\ [][NextPassword]_vars

NextUsername == GenerateUsernameSuggestions

SpecUsername == Init /\ [][NextUsername]_vars

NextPwned == CheckPwnedPassword

SpecPwned == Init /\ [][NextPwned]_vars

NextSocial == FormatSocialLink \/ ValidateSocialLink

SpecSocial == Init /\ [][NextSocial]_vars

-----------------------------------------------------------------------------
(* Properties of generate_password *)

AuthnCall == pw_fn = "authn"

Returned == pw_outcome = "returned"

\* the minimum AUTH_PASSWORD_VALIDATORS configures for a rule, before
\* password_complexity merges min_alphabetic; 0 when it configures none
Configured(param) ==
    Get(ReadValidators(pw_args.validators, EmptyDict), param, 0)

HasMinLength ==
    "min_length" \in DOMAIN ReadValidators(pw_args.validators, EmptyDict)

\* the least number of characters that meets the six character rules:
\* letters count for min_alphabetic and for min_lower or min_upper
RequiredSum ==
    Max(Configured("min_alphabetic"),
        Configured("min_lower") + Configured("min_upper"))
    + Configured("min_numeric") + Configured("min_punctuation")
    + Configured("min_symbol")

TargetOfCall == Max(pw_args.length, Configured("min_length"))

MeetsConfigured ==
    /\ Count(pw_password, {"l"}) >= Configured("min_lower")
    /\ Count(pw_password, {"u"}) >= Configured("min_upper")
    /\ Count(pw_password, {"l", "u"}) >= Configured("min_alphabetic")
    /\ Count(pw_password, {"d"}) >= Configured("min_numeric")
    /\ Count(pw_password, {"p"}) >= Configured("min_punctuation")
    /\ Count(pw_password, {"s"}) >= Configured("min_symbol")

\* C1: for every configured policy and every requested length >= 8,
\* generate_password (user_authn) returns a password that holds at least the
\* configured number of characters of every class.
\* (Stated here for the policies that configure a MinimumLengthValidator
\* and the calls with a pool to fill from; C6 is about the others.)
C1_ReturnsPasswordMeetingPolicy ==
    (AuthnCall /\ pw_args.length >= MinPasswordLength /\ pw_args.chars # <<>>
     /\ HasMinLength)
        => (Returned /\ MeetsConfigured)

\* (C1, the part of it the code keeps: a password that is returned meets
\* every configured minimum.)
ReturnedPasswordMeetsPolicy ==
    (AuthnCall /\ Returned) => MeetsConfigured

\* C2: the length of the password that generate_password (user_authn) returns
\* equals max(requested length, policy min_length).
C2_LengthIsMaxOfRequestAndMinLength ==
    (AuthnCall /\ Returned) => Len(pw_password) = TargetOfCall

\* C2, amended: the length of the returned password equals the greatest of
\* the requested length, the policy's min_length and the number of
\* characters the six character rules require.
C2_LengthIsMaxOfRequestMinLengthAndRequired ==
    (AuthnCall /\ Returned)
        => Len(pw_password) = Max(TargetOfCall, RequiredSum)

C2_Witness ==
    /\ AuthnCall /\ Returned
    /\ RequiredSum > TargetOfCall
    /\ Len(pw_password) = RequiredSum
    /\ Len(pw_password) > pw_args.length

\* C3: a call of either generate_password with a requested length below 8
\* ends in ValueError, returns no password, and has neither read the
\* policy nor drawn a character.
C3_ShortLengthFails ==
    (pw_fn # "none" /\ pw_args.length < 8)
        => /\ pw_outcome = "ValueError"
           /\ pw_password = <<>>
           /\ ~pw_policy_read
           /\ pw_drawn = 0

C3_Witness ==
    /\ pw_fn = "accounts"
    /\ pw_args.length = 7
    /\ pw_args.ENFORCE_PASSWORD_POLICY
    /\ pw_args.complexity # EmptyDict
    /\ pw_outcome = "ValueError"

\* C6: a rule that is not configured counts as a minimum of 0; with no
\* MinimumLengthValidator configured and a requested length >= 8,
\* generate_password (user_authn) returns a password of the requested length.
C6_NoMinLengthStillReturns ==
    (AuthnCall /\ pw_args.length >= MinPasswordLength /\ pw_args.chars # <<>>
     /\ ~HasMinLength)
        => (Returned /\ Len(pw_password) = pw_args.length)

\* C7: when the character rules require more characters than
\* max(requested length, policy min_length), generate_password (user_authn)
\* adds no fill character and the returned password is as long as the rules
\* require.
C7_PolicyDrivenLength ==
    (AuthnCall /\ Returned /\ RequiredSum > TargetOfCall)
        => (pw_filled = 0 /\ Len(pw_password) = RequiredSum)

C7_Witness ==
    /\ AuthnCall /\ Returned
    /\ RequiredSum > TargetOfCall
    /\ pw_filled = 0
    /\ Len(pw_password) = 9
    /\ pw_args.length = 8

-----------------------------------------------------------------------------
(* Properties of generate_username_suggestions *)

\* C4: no username of the returned list exists or is retired.
C4_NoExistingUsernameSuggested ==
    us_called =>
        \A i \in DOMAIN us_suggestions :
            ~username_exists_or_retired(us_suggestions[i], us_existing)

\* a call that had both name combinations to skip and still suggested one
C4_Witness ==
    /\ us_called
    /\ us_name = <<"a", "b", " ", "b", "_", "a">>
    /\ us_existing = {<<"a", "b", "b", "_", "a">>, <<"a", "b", "_", "0">>}
    /\ us_suggestions # <<>>

\* C9: the returned list holds at most 3 suggestions.
C9_AtMostThreeSuggestions ==
    us_called => Len(us_suggestions) <= 3

\* three suggestions from the number ranges alone: the loop stopped at 3
C9_Witness ==
    /\ us_called
    /\ us_name = <<"a", "b">>
    /\ Len(us_suggestions) = 3
    /\ us_suggestions[3] = <<"a", "b", "_", "9", "9", "9">>

\* C10: the usernames of the returned list are pairwise distinct.
C10_SuggestionsDistinct ==
    us_called =>
        \A i, j \in DOMAIN us_suggestions :
            i # j => us_suggestions[i] # us_suggestions[j]

-----------------------------------------------------------------------------
(* Properties of check_pwned_password *)

\* the count the response gives for the suffix of the password's hash
CountForSuffix ==
    Get(pp_response.dict, Sha1HexUpper(pp_password).suffix, 0)

\* C5: on the timeout sentinel check_pwned_password returns vulnerability
\* 'unknown' and no frequency; on a dict response vulnerability is 'yes'
\* when the count for the hash suffix is > 0 and 'no' otherwise.
C5_TimeoutIsUnknown ==
    pp_called =>
        /\ (pp_response.kind = "status" /\ pp_response.code = 408)
               => pp_properties = Dict1("vulnerability", "unknown")
        /\ pp_response.kind = "dict"
               => /\ "vulnerability" \in DOMAIN pp_properties
                  /\ pp_properties["vulnerability"]
                         = (IF CountForSuffix > 0 THEN "yes" ELSE "no")

C5_Witness ==
    /\ pp_called
    /\ pp_response.kind = "status"
    /\ pp_response.code = 408
    /\ pp_properties = Dict1("vulnerability", "unknown")

-----------------------------------------------------------------------------
(* Properties of format_social_link and validate_social_link *)

Configured_Platform == sl_platform \in DOMAIN SOCIAL_PLATFORMS

\* 'https://www.' + url_stub + username, username not empty and without '/'
BuiltFromStub(value, url_stub) ==
    LET base == HttpsWww \o url_stub
    IN  /\ value.kind = "str"
        /\ Len(value.s) > Len(base)
        /\ SubSeq(value.s, 1, Len(base)) = base
        /\ "/" \notin Range(SubSeq(value.s, Len(base) + 1, Len(value.s)))

====
